---------------------------- MODULE Spec2Model ----------------------------
(***************************************************************************)
(* A model of src/src/crawler.py of Tech-Daily-Digest: the aggregator      *)
(* crawl_all, the three fetch strategies fetch_rss, fetch_sitemap and      *)
(* fetch_web, and the pure helpers _extract_date_from_html and             *)
(* _extract_article_links; of analyze of src/src/analyzer.py; and of main  *)
(* of src/src/main.py with send_to_line of src/src/notifier.py.  Each      *)
(* part has its own specification (SpecCrawl, SpecStrategy, SpecFeeds,     *)
(* SpecSitemap, SpecWeb, SpecDate, SpecLinks, SpecAnalyze, SpecMain); a    *)
(* specification leaves the variables of the other parts at their idle     *)
(* values.  Remote documents and services are inputs: every session.get    *)
(* and every generate_content is a choice over the answers the other side  *)
(* can give.                                                               *)
(***************************************************************************)
EXTENDS Integers, Sequences, FiniteSets, TLC

VARIABLES
    \* crawl_all
    sources,        \* sources_config["sources"]
    src_i,          \* position of the for loop over the descriptors
    all_articles,   \* all_articles
    results,        \* history: what happened to each descriptor so far
    warned,         \* history: descriptors that got the unknown-type warning
    crawl_pc,       \* "loop" | "returned" | "raised"
    \* fetch_rss
    rss_pc,         \* "start" | "returned"
    feed,           \* the response to session.get(source["url"]), parsed
    rss_articles,   \* articles
    \* fetch_sitemap
    sm_pc,          \* "start" | "outer" | "inner" | "returned"
    sitemap_urls,   \* sitemap_urls
    sm_i,           \* position of the loop over sitemap_urls
    sm_k,           \* url elements the current sitemap has yielded
    sm_articles,    \* articles
    sm_requests,    \* history: the URLs passed to session.get, in order
    sm_index,       \* history: the root response _resolve_sitemaps saw
    sm_dated,       \* history: how many url elements were yielded with a
                    \* resolved date at or after cutoff
    sm_located,     \* history: those of them that have a loc, as <<loc, date>>
    sm_failed,      \* history: the positions in sitemap_urls of the sitemaps
                    \* whose request or XML parse failed
    sm_origin,      \* history: for each record of articles, the position in
                    \* sm_requests of the request whose response held it
    sm_el,          \* history: <<>>, or the url element the loop body handled
                    \* last in the current sitemap and whether it was appended
    \* fetch_web
    web_pc,         \* "start" | "loop" | "returned" | "raised"
    max_articles,   \* source.get("max_articles"): <<>> when absent, else <<n>>
    links,          \* links
    web_i,          \* position of the loop over links
    checked,        \* checked
    web_articles,   \* articles
    web_log,        \* history: one entry per article page requested
    \* _extract_date_from_html
    date_pc,        \* "start" | "returned"
    html,           \* the article page, parsed
    page_url,       \* url
    date_result,    \* the value returned
    \* _extract_article_links
    links_pc,       \* "start" | "returned"
    listing,        \* the listing page, parsed
    selector,       \* whether source has an article_selector
    link_result,    \* the value returned
    \* settings shared by the strategies
    max_per_source,
    max_chars,
    \* analyze
    an_pc,          \* "start" | "call" | "parse" | "returned" | "raised"
    an_articles,    \* len(articles)
    top_n,          \* top_n
    attempt,        \* attempt
    last_err,       \* last_err: <<>> is None, else <<str(e)>>
    an_response,    \* response: <<>> before a call succeeds
    an_events,      \* len(events) of the list returned
    an_calls,       \* history: the outcome of every generate_content call
    an_slept,       \* history: the argument of every time.sleep
    \* main
    mn_pc,          \* "start" | "loaded" | "analyze" | "send" | "exited"
    dry_run,        \* args.dry_run
    crawl_only,     \* args.crawl_only
    line_configured,\* settings["line"] has a token and a target_id
    mn_articles,    \* len(articles): <<>> before crawl_all returns
    mn_events,      \* len(events): <<>> before analyze returns
    mn_status,      \* the exit status of the process: <<>> while it runs
    mn_calls,       \* history: crawl_all, analyze, send_to_line as called
    mn_analyze      \* history: "none" | "returned" | "raised"

crawl_vars == <<sources, src_i, all_articles, results, warned, crawl_pc>>
rss_vars == <<rss_pc, feed, rss_articles>>
sm_vars == <<sm_pc, sitemap_urls, sm_i, sm_k, sm_articles, sm_requests,
             sm_index, sm_dated, sm_located, sm_failed, sm_el,
             sm_origin>>
web_vars == <<web_pc, max_articles, links, web_i, checked, web_articles, web_log>>
strategy_vars == <<rss_vars, sm_vars, web_vars, max_per_source, max_chars>>
date_vars == <<date_pc, html, page_url, date_result>>
links_vars == <<links_pc, listing, selector, link_result>>
pure_vars == <<date_vars, links_vars>>
mn_vars == <<mn_pc, dry_run, crawl_only, line_configured, mn_articles,
             mn_events, mn_status, mn_calls, mn_analyze>>
an_vars == <<an_pc, an_articles, top_n, attempt, last_err, an_response,
             an_events, an_calls, an_slept>>
vars == <<crawl_vars, strategy_vars, pure_vars, an_vars, mn_vars>>

-----------------------------------------------------------------------------
(* Bounds of the model *)

MaxSources == 3      \* descriptors in sources.json
MaxRet == 1          \* records one abstract strategy call returns
MaxCap == 2          \* max_articles_per_source ranges over 0..MaxCap
MaxEntries == 2      \* entries of one feed, url elements of one sitemap
MaxChildren == 2     \* loc elements of one sitemap index
Cutoff == 2          \* the cutoff instant; instants are integers
MaxLinks == 4        \* candidate links of one listing page
MaxToCheck == 2      \* an explicit max_articles ranges over 1..MaxToCheck
MaxBlocks == 2       \* structured-data blocks of a page
MaxMeta == 2         \* meta tags of a page
MaxTimes == 2        \* time elements of a page
MaxAnchors == 3      \* elements of a listing page

-----------------------------------------------------------------------------
(* Sequence helpers *)

Range(s) == {s[k] : k \in 1..Len(s)}

Min(a, b) == IF a <= b THEN a ELSE b

Take(s, n) == SubSeq(s, 1, Min(n, Len(s)))

SeqsUpTo(S, n) == UNION {[1..k -> S] : k \in 0..n}

-----------------------------------------------------------------------------
(* crawl_all *)

\* A source descriptor as crawl_all reads it: whether the keys "name" and
\* "url" are present, and the value of "type" ("absent": no such key).
Descriptors ==
    [name : {TRUE}, url : {TRUE}, type : {"rss", "sitemap", "web", "ftp", "absent"}]
    \cup {[name |-> FALSE, url |-> TRUE, type |-> "ftp"],
          [name |-> TRUE, url |-> FALSE, type |-> "rss"],
          [name |-> FALSE, url |-> FALSE, type |-> "absent"]}

\* if "url" not in source or "name" not in source: continue
SkippedAnd(source) == ~source.url /\ ~source.name
Skipped(source) == ~source.url \/ ~source.name

\* source.get("type", "rss")
src_typeAsDeclared(source) == source.type
src_type(source) == IF source.type = "absent" THEN "rss" ELSE source.type

\* dispatch.get(src_type): the strategy, or "none"
dispatchDefaultsToRss(t) == IF t \in {"sitemap", "web"} THEN t ELSE "rss"
dispatch(t) == IF t \in {"rss", "sitemap", "web"} THEN t ELSE "none"

\* except Exception as e: logger.error(...): the loop goes on
OnFetcherExceptionPropagate == "raised"
OnFetcherException == "loop"

\* What one call fetcher(source=..., ...) can do: raise, or return a list.
\* The k-th record of descriptor i's list is [source |-> i, k |-> k].
FetcherReturn(i, n) == [k \in 1..n |-> [source |-> i, k |-> k]]

InitCrawlVars ==
    /\ sources \in SeqsUpTo(Descriptors, MaxSources)
    /\ src_i = 1
    /\ all_articles = <<>>
    /\ results = <<>>
    /\ warned = <<>>
    /\ crawl_pc = "loop"

IdleCrawl ==
    /\ sources = <<>>
    /\ src_i = 1
    /\ all_articles = <<>>
    /\ results = <<>>
    /\ warned = <<>>
    /\ crawl_pc = "idle"

\* A documentation-only descriptor: skipped silently.
CrawlSkip ==
    /\ crawl_pc = "loop" /\ src_i <= Len(sources)
    /\ Skipped(sources[src_i])
    /\ results' = Append(results, [kind |-> "skipped", fetcher |-> "none", n |-> 0])
    /\ src_i' = src_i + 1
    /\ UNCHANGED <<sources, all_articles, warned, crawl_pc, strategy_vars, pure_vars, an_vars, mn_vars>>

\* fetcher is None: warning, continue.
CrawlUnknownType ==
    /\ crawl_pc = "loop" /\ src_i <= Len(sources)
    /\ ~Skipped(sources[src_i])
    /\ dispatch(src_type(sources[src_i])) = "none"
    /\ warned' = Append(warned, src_i)
    /\ results' = Append(results, [kind |-> "unknown", fetcher |-> "none", n |-> 0])
    /\ src_i' = src_i + 1
    /\ UNCHANGED <<sources, all_articles, crawl_pc, strategy_vars, pure_vars, an_vars, mn_vars>>

\* The strategy returns a list: all_articles.extend(articles).
CrawlFetched ==
    /\ crawl_pc = "loop" /\ src_i <= Len(sources)
    /\ ~Skipped(sources[src_i])
    /\ dispatch(src_type(sources[src_i])) # "none"
    /\ \E n \in 0..MaxRet :
          /\ all_articles' = all_articles \o FetcherReturn(src_i, n)
          /\ results' = Append(results,
                [kind |-> dispatch(src_type(sources[src_i])),
                 fetcher |-> dispatch(src_type(sources[src_i])), n |-> n])
    /\ src_i' = src_i + 1
    /\ UNCHANGED <<sources, warned, crawl_pc, strategy_vars, pure_vars, an_vars, mn_vars>>

\* The strategy raises an Exception: caught, logged, next descriptor.
CrawlFetcherRaised ==
    /\ crawl_pc = "loop" /\ src_i <= Len(sources)
    /\ ~Skipped(sources[src_i])
    /\ dispatch(src_type(sources[src_i])) # "none"
    /\ results' = Append(results,
          [kind |-> "raised", fetcher |-> dispatch(src_type(sources[src_i])),
           n |-> 0])
    /\ crawl_pc' = OnFetcherException
    /\ src_i' = src_i + 1
    /\ UNCHANGED <<sources, all_articles, warned, strategy_vars, pure_vars, an_vars, mn_vars>>

\* return all_articles
CrawlReturn ==
    /\ crawl_pc = "loop" /\ src_i > Len(sources)
    /\ crawl_pc' = "returned"
    /\ UNCHANGED <<sources, src_i, all_articles, results, warned, strategy_vars, pure_vars, an_vars, mn_vars>>

-----------------------------------------------------------------------------
(* Dates.  An instant is an integer; the strings and fields that carry one *)
(* are modelled by the instant they parse to.                              *)

NoneDt == 0          \* None: no such field, or nothing could be parsed
BadStr == 0 - 1      \* a string dateutil cannot parse
Unknown == 0 - 2     \* published_at "unknown"

Dates == (Cutoff - 1)..(Cutoff + 1)

\* A field that may carry a date string
DateField == {NoneDt, BadStr} \cup Dates

\* _parse_date_str: the instant, or None when dateutil raises.  A string
\* dateutil can parse is given by the (positive) UTC instant it parses to.
_parse_date_str(s) == IF s > 0 THEN s ELSE NoneDt

-----------------------------------------------------------------------------
(* Text and _html_to_text *)

\* A string is the sequence of its characters, each written "c": only the
\* lengths differ
Chars(n) == [k \in 1..n |-> "c"]

Texts == {Chars(0), Chars(1), Chars(3)}

\* cfg.get("max_content_chars", 500): a character count
CharCaps == {0, 2}

\* An HTML string: the string itself, the text soup.get_text(" ", strip=True)
\* makes of it, and whether BeautifulSoup raises on it
EmptyHtml == [raw |-> Chars(0), text |-> Chars(0), soup |-> "ok"]

Htmls ==
    {EmptyHtml}
    \cup [raw : {Chars(3)}, text : Texts, soup : {"ok"}]
    \cup {[raw |-> Chars(3), text |-> Chars(1), soup |-> "raise"]}

\* s[:limit]
HtmlToTextUncut(doc, limit) ==
    IF doc.soup = "ok" THEN doc.text ELSE doc.raw
_html_to_text(doc, limit) ==
    IF doc.soup = "ok" THEN Take(doc.text, limit) ELSE Take(doc.raw, limit)

-----------------------------------------------------------------------------
(* fetch_rss *)

\* A feed entry: its link, the first present *_parsed field (a time tuple,
\* given by the instant mktime makes of it), the first present raw date
\* string, its summary attribute (<<>>: no such attribute) and the "value" of
\* the first item of its content attribute (<<>>: no attribute, or an empty
\* list).
FeedEntries ==
    [link : {"a"}, parsed : {NoneDt, Cutoff - 1, Cutoff},
     raw : {NoneDt, BadStr, Cutoff - 1, Cutoff + 1},
     summary : {<<>>}, content : {<<>>}]
    \cup [link : {"b"}, parsed : {Cutoff}, raw : {NoneDt},
          summary : {<<>>}, content : {<<>>}]
    \cup [link : {"c"}, parsed : {Cutoff}, raw : {NoneDt},
          summary : {<<h>> : h \in Htmls}, content : {<<>>}]
    \cup [link : {"c"}, parsed : {Cutoff}, raw : {NoneDt},
          summary : {<<>>, <<EmptyHtml>>},
          content : {<<[raw |-> Chars(3), text |-> Chars(3), soup |-> "ok"]>>}]

\* The response to the one request: a failure (transport, status), or a
\* parsed feed.
FeedResponses ==
    {[ok |-> FALSE, entries |-> <<>>]}
    \cup [ok : {TRUE}, entries : SeqsUpTo(FeedEntries, MaxEntries)]

\* _feedparser_entry_date: the parsed fields first, then the raw strings
_feedparser_entry_date(entry) ==
    IF entry.parsed # NoneDt THEN entry.parsed
    ELSE IF entry.raw # NoneDt THEN _parse_date_str(entry.raw)
    ELSE NoneDt

\* if pub_dt is None or pub_dt < cutoff: continue
TooOldInclusive(pub_dt) == pub_dt <= Cutoff
TooOld(pub_dt) == pub_dt < Cutoff

\* if len(articles) >= max_per_source: break
CapReached(articles) == Len(articles) >= max_per_source

\* raw = entry.summary, or entry.content[0].get("value", ""), or ""
RssRaw(entry) ==
    IF entry.summary # <<>> THEN entry.summary[1]
    ELSE IF entry.content # <<>> THEN entry.content[1]
    ELSE EmptyHtml

RssRecord(entry, pub_dt) ==
    [url |-> entry.link,
     published_at |-> pub_dt,
     summary |-> IF RssRaw(entry).raw # <<>>
                 THEN _html_to_text(RssRaw(entry), max_chars) ELSE <<>>]

\* for entry in feed.entries: ...
RECURSIVE RssLoop(_, _, _)
RssLoop(entries, k, articles) ==
    IF k > Len(entries) THEN articles
    ELSE IF CapReached(articles) THEN articles
    ELSE LET pub_dt == _feedparser_entry_date(entries[k])
         IN  IF pub_dt = NoneDt \/ TooOld(pub_dt)
             THEN RssLoop(entries, k + 1, articles)
             ELSE RssLoop(entries, k + 1,
                          Append(articles, RssRecord(entries[k], pub_dt)))

InitRssVars ==
    /\ rss_pc = "start"
    /\ feed = [ok |-> FALSE, entries |-> <<>>]
    /\ rss_articles = <<>>

IdleRss ==
    /\ rss_pc = "idle"
    /\ feed = [ok |-> FALSE, entries |-> <<>>]
    /\ rss_articles = <<>>

\* fetch_rss, one call
FetchRss ==
    /\ rss_pc = "start"
    /\ \E resp \in FeedResponses :
          /\ feed' = resp
          /\ rss_articles' = IF resp.ok THEN RssLoop(resp.entries, 1, <<>>)
                             ELSE <<>>
    /\ rss_pc' = "returned"
    /\ UNCHANGED <<crawl_vars, sm_vars, web_vars, max_per_source, max_chars, pure_vars, an_vars, mn_vars>>

-----------------------------------------------------------------------------
(* fetch_sitemap *)

RootUrl == "root"

\* The text of a loc element of an index: "" is an element without text
IndexLocs == {"", "c1", "c2", "c3"}

\* The child URLs of an index are distinct: they are named in document order
ChildrenNamedInOrder(locs) ==
    LET texts == SelectSeq(locs, LAMBDA loc : loc # "")
    IN  texts = Take(<<"c1", "c2", "c3">>, Len(texts))

\* What _resolve_sitemaps can get for the root: a failure (transport, status,
\* XML), a sitemap index, or any other document.  Two indexes do not have
\* distinct children: one lists a child twice, one lists the root itself.
RootResponses ==
    {[kind |-> "fail", locs |-> <<>>], [kind |-> "urlset", locs |-> <<>>]}
    \cup [kind : {"index"},
          locs : {locs \in SeqsUpTo(IndexLocs, MaxChildren) :
                    ChildrenNamedInOrder(locs)}]
    \cup {[kind |-> "index", locs |-> <<"c1", "c1">>],
          [kind |-> "index", locs |-> <<RootUrl>>]}

\* A url element: the texts of its loc, lastmod, news:publication_date and
\* news:title elements ("" and NoneDt: no such element, or no text), and
\* where the two news elements sit: "url" when they are children of the url
\* element itself, "news" when they are children of its news:news child, as
\* the Google News sitemap schema has them
SitemapEntries ==
    [loc : {"a"}, news_date : {NoneDt},
     lastmod : {NoneDt, BadStr, Cutoff - 1, Cutoff}, news_title : {""},
     news_in : {"url"}]
    \cup [loc : {"a"}, news_date : {BadStr, Cutoff - 1},
          lastmod : {NoneDt, Cutoff}, news_title : {""}, news_in : {"url"}]
    \cup [loc : {"a"}, news_date : {Cutoff + 1},
          lastmod : {NoneDt, Cutoff - 1}, news_title : {""}, news_in : {"url"}]
    \cup [loc : {""}, news_date : {NoneDt, Cutoff + 1}, lastmod : {NoneDt},
          news_title : {""}, news_in : {"url"}]
    \cup [loc : {"a", "b"}, news_date : {NoneDt}, lastmod : {Cutoff},
          news_title : {"", "T"}, news_in : {"url"}]
    \cup [loc : {"a"}, news_date : {Cutoff + 1}, lastmod : {NoneDt, Cutoff},
          news_title : {"T"}, news_in : {"news"}]

\* _resolve_sitemaps
ResolveNothingOnFailure(resp) ==
    IF resp.kind = "index" THEN SelectSeq(resp.locs, LAMBDA loc : loc # "")
    ELSE IF resp.kind = "fail" THEN <<>>
    ELSE <<RootUrl>>
ResolveRootAsLeafToo(resp) ==
    IF resp.kind = "index"
    THEN <<RootUrl>> \o SelectSeq(resp.locs, LAMBDA loc : loc # "")
    ELSE <<RootUrl>>
ResolveAll(resp) == IF resp.kind = "index" THEN resp.locs ELSE <<RootUrl>>
_resolve_sitemaps(resp) ==
    IF resp.kind = "index"
    THEN SelectSeq(resp.locs, LAMBDA loc : loc # "")
    ELSE <<RootUrl>>

\* url_el.find(tag): the text of the first CHILD of url_el with that tag; an
\* element further down is not found
FindNewsDate(url_el) ==
    IF url_el.news_in = "url" THEN url_el.news_date ELSE NoneDt
FindNewsTitle(url_el) ==
    IF url_el.news_in = "url" THEN url_el.news_title ELSE ""

\* Google News date, then lastmod
SitemapPubDt(url_el) ==
    LET news == IF FindNewsDate(url_el) # NoneDt
                THEN _parse_date_str(FindNewsDate(url_el)) ELSE NoneDt
    IN  IF news # NoneDt THEN news
        ELSE IF url_el.lastmod # NoneDt THEN _parse_date_str(url_el.lastmod)
        ELSE NoneDt

SitemapRecord(url_el, pub_dt) ==
    [title |-> IF FindNewsTitle(url_el) # "" THEN FindNewsTitle(url_el)
               ELSE url_el.loc,
     url |-> url_el.loc,
     published_at |-> pub_dt,
     summary |-> ""]

\* The histories stop at max_per_source + 1 such elements: enough to tell a
\* source that offers more than the cap from one that does not.
Dated(url_el) == SitemapPubDt(url_el) # NoneDt /\ SitemapPubDt(url_el) >= Cutoff

CountDated(n, url_el) ==
    IF Dated(url_el) /\ n <= max_per_source THEN n + 1 ELSE n

Observe(history, url_el) ==
    IF Dated(url_el) /\ url_el.loc # "" /\ Len(history) <= max_per_source
    THEN Append(history, <<url_el.loc, SitemapPubDt(url_el)>>)
    ELSE history

InitSitemapVars ==
    /\ sm_pc = "start"
    /\ sitemap_urls = <<>>
    /\ sm_i = 1
    /\ sm_k = 0
    /\ sm_articles = <<>>
    /\ sm_requests = <<>>
    /\ sm_index = [kind |-> "fail", locs |-> <<>>]
    /\ sm_dated = 0
    /\ sm_located = <<>>
    /\ sm_failed = {}
    /\ sm_el = <<>>
    /\ sm_origin = <<>>

IdleSitemap ==
    /\ sm_pc = "idle"
    /\ sitemap_urls = <<>>
    /\ sm_i = 1
    /\ sm_k = 0
    /\ sm_articles = <<>>
    /\ sm_requests = <<>>
    /\ sm_index = [kind |-> "fail", locs |-> <<>>]
    /\ sm_dated = 0
    /\ sm_located = <<>>
    /\ sm_failed = {}
    /\ sm_el = <<>>
    /\ sm_origin = <<>>

\* sitemap_urls = _resolve_sitemaps(source["url"], session)
SitemapResolve ==
    /\ sm_pc = "start"
    /\ \E resp \in RootResponses :
          /\ sm_index' = resp
          /\ sitemap_urls' = _resolve_sitemaps(resp)
    /\ sm_requests' = Append(sm_requests, RootUrl)
    /\ sm_pc' = "outer"
    /\ UNCHANGED <<sm_i, sm_k, sm_articles, sm_dated, sm_located, sm_failed,
                   sm_el, sm_origin>>
    /\ UNCHANGED <<crawl_vars, rss_vars, web_vars, max_per_source, max_chars, pure_vars, an_vars, mn_vars>>

\* for sm_url in sitemap_urls: the request fails, or its XML does not parse
SitemapLeafFails ==
    /\ sm_pc = "outer" /\ sm_i <= Len(sitemap_urls)
    /\ ~CapReached(sm_articles)
    /\ sm_requests' = Append(sm_requests, sitemap_urls[sm_i])
    /\ sm_i' = sm_i + 1
    /\ sm_failed' = sm_failed \cup {sm_i}
    /\ UNCHANGED <<sm_pc, sitemap_urls, sm_k, sm_articles, sm_index, sm_dated,
                   sm_located, sm_el, sm_origin>>
    /\ UNCHANGED <<crawl_vars, rss_vars, web_vars, max_per_source, max_chars, pure_vars, an_vars, mn_vars>>

\* for sm_url in sitemap_urls: the document is fetched and parsed
SitemapLeafParsed ==
    /\ sm_pc = "outer" /\ sm_i <= Len(sitemap_urls)
    /\ ~CapReached(sm_articles)
    /\ sm_requests' = Append(sm_requests, sitemap_urls[sm_i])
    /\ sm_pc' = "inner"
    /\ sm_k' = 0
    /\ UNCHANGED <<sitemap_urls, sm_i, sm_articles, sm_index, sm_dated, sm_located,
                   sm_failed, sm_el, sm_origin>>
    /\ UNCHANGED <<crawl_vars, rss_vars, web_vars, max_per_source, max_chars, pure_vars, an_vars, mn_vars>>

\* for url_el in root.iter(url): the document yields its next url element
SitemapUrlElement ==
    /\ sm_pc = "inner" /\ sm_k < MaxEntries
    /\ \E url_el \in SitemapEntries :
          LET pub_dt == SitemapPubDt(url_el)
          IN  /\ sm_dated' = CountDated(sm_dated, url_el)
              /\ sm_located' = Observe(sm_located, url_el)
              /\ IF CapReached(sm_articles)
                 THEN \* break, and on to the next sm_url
                      /\ sm_pc' = "outer"
                      /\ sm_i' = sm_i + 1
                      /\ sm_k' = 0
                      /\ sm_el' = <<>>
                      /\ UNCHANGED <<sm_articles, sm_origin>>
                 ELSE /\ sm_k' = sm_k + 1
                      /\ sm_articles' =
                            IF url_el.loc = "" THEN sm_articles
                            ELSE IF pub_dt = NoneDt \/ TooOld(pub_dt) THEN sm_articles
                            ELSE Append(sm_articles, SitemapRecord(url_el, pub_dt))
                      /\ sm_el' = <<[el |-> url_el,
                                     appended |-> sm_articles' # sm_articles]>>
                      /\ sm_origin' = IF sm_articles' # sm_articles
                                      THEN Append(sm_origin, Len(sm_requests))
                                      ELSE sm_origin
                      /\ UNCHANGED <<sm_pc, sm_i>>
    /\ UNCHANGED <<sitemap_urls, sm_requests, sm_index, sm_failed>>
    /\ UNCHANGED <<crawl_vars, rss_vars, web_vars, max_per_source, max_chars, pure_vars, an_vars, mn_vars>>

\* for url_el in root.iter(url): the document has no more url elements
SitemapLeafDone ==
    /\ sm_pc = "inner"
    /\ sm_pc' = "outer"
    /\ sm_i' = sm_i + 1
    /\ sm_k' = 0
    /\ sm_el' = <<>>
    /\ UNCHANGED <<sitemap_urls, sm_articles, sm_requests, sm_index, sm_dated,
                   sm_located, sm_failed, sm_origin>>
    /\ UNCHANGED <<crawl_vars, rss_vars, web_vars, max_per_source, max_chars, pure_vars, an_vars, mn_vars>>

\* The loop over sitemap_urls ends (exhausted, or break): return articles
SitemapReturn ==
    /\ sm_pc = "outer"
    /\ sm_i > Len(sitemap_urls) \/ CapReached(sm_articles)
    /\ sm_pc' = "returned"
    /\ UNCHANGED <<sitemap_urls, sm_i, sm_k, sm_articles, sm_requests, sm_index,
                   sm_dated, sm_located, sm_failed, sm_el, sm_origin>>
    /\ UNCHANGED <<crawl_vars, rss_vars, web_vars, max_per_source, max_chars, pure_vars, an_vars, mn_vars>>

-----------------------------------------------------------------------------
(* fetch_web *)

\* The list _extract_article_links returns for the listing page: URLs, here
\* numbered in link-extraction order, none twice.
LinkLists == {[k \in 1..n |-> k] : n \in 0..MaxLinks}

\* One article page, as _scrape_article meets it: the request fails or not;
\* trafilatura.extract raises, returns nothing, returns text that is not
\* JSON, or returns JSON with a title, a date string and a text; the date
\* _extract_date_from_html finds in the raw HTML; and the raw HTML as
\* _html_to_text meets it.
ArticlePages ==
    {[fetch |-> "fail", extract |-> "none", title |-> "", date |-> NoneDt,
      html_date |-> NoneDt, text |-> Chars(0), body |-> EmptyHtml],
     [fetch |-> "ok", extract |-> "raise", title |-> "", date |-> NoneDt,
      html_date |-> NoneDt, text |-> Chars(0), body |-> EmptyHtml]}
    \cup [fetch : {"ok"}, extract : {"none", "badjson"}, title : {""},
          date : {NoneDt}, html_date : {NoneDt} \cup Dates,
          text : {Chars(0)}, body : {EmptyHtml}]
    \cup [fetch : {"ok"}, extract : {"none"}, title : {""},
          date : {NoneDt}, html_date : {NoneDt},
          text : {Chars(0)}, body : Htmls]
    \cup [fetch : {"ok"}, extract : {"json"}, title : {"", "T"},
          date : DateField, html_date : {NoneDt} \cup Dates,
          text : {Chars(0)}, body : {EmptyHtml}]
    \cup [fetch : {"ok"}, extract : {"json"}, title : {"T"},
          date : {Cutoff}, html_date : {NoneDt},
          text : Texts, body : {EmptyHtml}]

\* _scrape_article: None, an exception out of trafilatura.extract, or the
\* result dict
_scrape_article(url, page) ==
    IF page.fetch = "fail"
    THEN [status |-> "none", title |-> "", pub_dt |-> NoneDt, summary |-> <<>>]
    ELSE IF page.extract = "raise"
    THEN [status |-> "raised", title |-> "", pub_dt |-> NoneDt, summary |-> <<>>]
    ELSE LET title == IF page.extract = "json" THEN page.title ELSE ""
             meta_dt == IF page.extract = "json" /\ page.date # NoneDt
                        THEN _parse_date_str(page.date) ELSE NoneDt
             pub_dt == IF meta_dt = NoneDt THEN page.html_date ELSE meta_dt
             \* (data.get("text") or "")[:max_chars]; "" when json.loads
             \* raises; _html_to_text(html, max_chars) without raw_json
             text == IF page.extract = "json" THEN Take(page.text, max_chars)
                     ELSE IF page.extract = "badjson" THEN <<>>
                     ELSE _html_to_text(page.body, max_chars)
         IN  [status |-> "ok", title |-> title, pub_dt |-> pub_dt,
              summary |-> text]

\* max_to_check = source.get("max_articles", max_per_source * 3)
max_to_check ==
    IF max_articles = <<>> THEN max_per_source * 3 ELSE max_articles[1]

\* if checked >= max_to_check: break
CeilingReachedOffByOne == checked > max_to_check
CeilingReached == checked >= max_to_check

\* pub_dt is None: kept as "unknown"; elif pub_dt < cutoff: continue
WebKeepsDatedOnly(pub_dt) == pub_dt # NoneDt /\ ~TooOld(pub_dt)
WebKeeps(pub_dt) == pub_dt = NoneDt \/ ~TooOld(pub_dt)

WebRecordDateAbsent(link, result) ==
    [title |-> IF result.title # "" THEN "T" ELSE "link",
     url |-> link,
     published_at |-> result.pub_dt,
     summary |-> result.summary]
WebRecord(link, result) ==
    [title |-> IF result.title # "" THEN "T" ELSE "link",
     url |-> link,
     published_at |-> IF result.pub_dt = NoneDt THEN Unknown ELSE result.pub_dt,
     summary |-> result.summary]

InitWebVars ==
    /\ web_pc = "start"
    /\ max_articles \in {<<>>} \cup {<<n>> : n \in 1..MaxToCheck}
    /\ links = <<>>
    /\ web_i = 1
    /\ checked = 0
    /\ web_articles = <<>>
    /\ web_log = <<>>

IdleWeb ==
    /\ web_pc = "idle"
    /\ max_articles = <<>>
    /\ links = <<>>
    /\ web_i = 1
    /\ checked = 0
    /\ web_articles = <<>>
    /\ web_log = <<>>

\* Step 1: the listing page cannot be fetched: return []
WebListingFails ==
    /\ web_pc = "start"
    /\ web_pc' = "returned"
    /\ UNCHANGED <<max_articles, links, web_i, checked, web_articles, web_log>>
    /\ UNCHANGED <<crawl_vars, rss_vars, sm_vars, max_per_source, max_chars, pure_vars, an_vars, mn_vars>>

\* Step 1: links = _extract_article_links(listing_html, ...)
WebListing ==
    /\ web_pc = "start"
    /\ links' \in LinkLists
    /\ web_pc' = "loop"
    /\ UNCHANGED <<max_articles, web_i, checked, web_articles, web_log>>
    /\ UNCHANGED <<crawl_vars, rss_vars, sm_vars, max_per_source, max_chars, pure_vars, an_vars, mn_vars>>

\* Steps 2 and 3: one pass of "for link in links" that gets past both breaks
WebCandidate ==
    /\ web_pc = "loop" /\ web_i <= Len(links)
    /\ ~CapReached(web_articles)
    /\ ~CeilingReached
    /\ checked' = checked + 1
    /\ web_i' = web_i + 1
    /\ \E page \in ArticlePages :
          LET link == links[web_i]
              result == _scrape_article(link, page)
              kept == result.status = "ok" /\ WebKeeps(result.pub_dt)
          IN  /\ web_log' = Append(web_log,
                    [link |-> link, status |-> result.status,
                     pub_dt |-> result.pub_dt,
                     accepted_before |-> Len(web_articles),
                     checked_before |-> checked,
                     \* time_module.sleep(0.5) ends the pass that appends
                     slept |-> kept])
              /\ web_pc' = IF result.status = "raised"
                           THEN "raised"   \* the exception leaves fetch_web
                           ELSE web_pc
              /\ web_articles' = IF kept
                                 THEN Append(web_articles, WebRecord(link, result))
                                 ELSE web_articles
    /\ UNCHANGED <<max_articles, links>>
    /\ UNCHANGED <<crawl_vars, rss_vars, sm_vars, max_per_source, max_chars, pure_vars, an_vars, mn_vars>>

\* The loop ends (links exhausted, or one of the two breaks): return articles
WebReturn ==
    /\ web_pc = "loop"
    /\ web_i > Len(links) \/ CapReached(web_articles) \/ CeilingReached
    /\ web_pc' = "returned"
    /\ UNCHANGED <<max_articles, links, web_i, checked, web_articles, web_log>>
    /\ UNCHANGED <<crawl_vars, rss_vars, sm_vars, max_per_source, max_chars, pure_vars, an_vars, mn_vars>>

\* What crawl_all adds to all_articles for this source: the returned list,
\* or nothing when the call raised (except Exception: logger.error)
WebContribution == IF web_pc = "returned" THEN web_articles ELSE <<>>

-----------------------------------------------------------------------------
(* _date_from_url and _extract_date_from_html *)

\* A URL is given by the matches of _DATE_IN_URL in it, leftmost first: which
\* alternative matched ("ymd": /YYYY/MM/DD/ or /YYYY-MM-DD/, "compact":
\* /YYYYMMDD/) and the digits matched, as year, month and day.
UrlDateMatches ==
    [form : {"ymd", "compact"}, y : {0, 2024, 2025}, m : {2, 13}, d : {21, 29, 32}]

\* m.group(1), m.group(2), m.group(3), or the slices of m.group(4)
Captured(match) ==
    IF match.form = "ymd" THEN <<match.y, match.m, match.d>>
    ELSE LET raw == match.y * 10000 + match.m * 100 + match.d
         IN  <<raw \div 10000, (raw \div 100) % 100, raw % 100>>

\* datetime(y, mo, d): ValueError unless a calendar date
IsCalendarDateAnyMonth31(y, m, d) ==
    /\ y >= 1 /\ y <= 9999
    /\ m >= 1 /\ m <= 12
    /\ d >= 1 /\ d <= 31

IsLeap(y) == (y % 4 = 0 /\ y % 100 # 0) \/ y % 400 = 0

DaysInMonth(y, m) ==
    IF m = 2 THEN (IF IsLeap(y) THEN 29 ELSE 28)
    ELSE IF m \in {4, 6, 9, 11} THEN 30 ELSE 31

IsCalendarDate(y, m, d) ==
    /\ y >= 1 /\ y <= 9999
    /\ m >= 1 /\ m <= 12
    /\ d >= 1 /\ d <= DaysInMonth(y, m)

\* The instant of midnight UTC of a day, as the number yyyymmdd
Midnight(y, m, d) == y * 10000 + m * 100 + d

\* _date_from_url: the first match only
_date_from_url(url) ==
    IF url = <<>> THEN NoneDt
    ELSE LET ymd == Captured(url[1])
         IN  IF IsCalendarDate(ymd[1], ymd[2], ymd[3])
             THEN Midnight(ymd[1], ymd[2], ymd[3])
             ELSE NoneDt

\* The first element of a sequence of optional instants that is one
RECURSIVE FirstDate(_)
FirstDate(s) ==
    IF s = <<>> THEN NoneDt
    ELSE IF Head(s) # NoneDt THEN Head(s) ELSE FirstDate(Tail(s))

\* for field in ("datePublished", "dateModified", "dateCreated")
LdFields == <<"datePublished", "dateModified", "dateCreated">>

\* One script block: json.loads raises (malformed, empty), or gives an object
\* or an array; of an array the first item is read (data = data[0]), and an
\* empty array raises.  Any exception skips the block.
LdBlockDate(block) ==
    IF block.kind = "malformed" \/ block.items = <<>> THEN NoneDt
    ELSE LET data == block.items[1]
         IN  FirstDate([f \in 1..Len(LdFields) |->
                          IF data[LdFields[f]] # NoneDt
                          THEN _parse_date_str(data[LdFields[f]]) ELSE NoneDt])

\* 1. JSON-LD: for tag in soup.find_all("script", type="application/ld+json")
LdDate(ld) == FirstDate([b \in 1..Len(ld) |-> LdBlockDate(ld[b])])

\* for prop in (...)
MetaProps ==
    <<"article:published_time", "article:modified_time", "og:updated_time",
      "date", "pubdate", "DC.date">>

\* soup.find("meta", attrs={attr: prop}): the first such tag (0: none)
FindMeta(meta, attr, prop) ==
    LET hits == {j \in 1..Len(meta) : meta[j].attr = attr /\ meta[j].key = prop}
    IN  IF hits = {} THEN 0 ELSE CHOOSE j \in hits : \A h \in hits : j <= h

\* tag = soup.find(property=prop) or soup.find(name=prop);
\* if tag and tag.get("content"): dt = _parse_date_str(tag["content"])
MetaPropDate(meta, prop) ==
    LET byProperty == FindMeta(meta, "property", prop)
        tag == IF byProperty # 0 THEN byProperty ELSE FindMeta(meta, "name", prop)
    IN  IF tag # 0 /\ meta[tag].content # NoneDt
        THEN _parse_date_str(meta[tag].content) ELSE NoneDt

\* 2. OpenGraph / meta tags
MetaDate(meta) ==
    FirstDate([k \in 1..Len(MetaProps) |-> MetaPropDate(meta, MetaProps[k])])

\* dt_attr = time_tag.get("datetime") or time_tag.get_text(strip=True)
TimeTagDate(time_tag) ==
    LET dt_attr == IF time_tag.datetime # NoneDt THEN time_tag.datetime
                   ELSE time_tag.text
    IN  IF dt_attr # NoneDt THEN _parse_date_str(dt_attr) ELSE NoneDt

\* 3. <time>: for time_tag in soup.find_all("time")
TimeDate(times) == FirstDate([j \in 1..Len(times) |-> TimeTagDate(times[j])])

\* The layers in the order the function tries them; 4. the URL
LayersTimeBeforeMeta(page, url) ==
    <<LdDate(page.ld), TimeDate(page.times), MetaDate(page.meta), _date_from_url(url)>>
Layers(page, url) ==
    <<LdDate(page.ld), MetaDate(page.meta), TimeDate(page.times), _date_from_url(url)>>

_extract_date_from_html(page, url) == FirstDate(Layers(page, url))

(* The pages.  A date string of a page is written Good in its shape and is *)
(* then given an instant of its own, so that any two date strings of a     *)
(* page conflict and the result tells which one was taken.                 *)

Good == 1

FieldShapes == {NoneDt, BadStr, Good}

LdObjects ==
    [datePublished : FieldShapes, dateModified : {NoneDt, Good},
     dateCreated : {NoneDt, Good}]

\* The objects of an array have a datePublished or no date at all
LdItem(shape) ==
    [datePublished |-> shape, dateModified |-> NoneDt, dateCreated |-> NoneDt]

LdArrays ==
    {<<>>, <<LdItem(NoneDt)>>, <<LdItem(Good)>>,
     <<LdItem(NoneDt), LdItem(Good)>>, <<LdItem(Good), LdItem(Good)>>}

LdBlocks ==
    {[kind |-> "malformed", items |-> <<>>]}
    \cup {[kind |-> "object", items |-> <<o>>] : o \in LdObjects}
    \cup [kind : {"array"}, items : LdArrays]

MetaTags ==
    [attr : {"property"}, key : Range(MetaProps), content : FieldShapes]
    \cup [attr : {"name"}, key : Range(MetaProps), content : {Good}]

TimeTags == [datetime : FieldShapes, text : FieldShapes]

Stamp(shape, instant) == IF shape = Good THEN instant ELSE shape

StampLd(ld) ==
    [b \in 1..Len(ld) |->
        [kind |-> ld[b].kind,
         items |-> [i \in 1..Len(ld[b].items) |->
                      [datePublished |-> Stamp(ld[b].items[i].datePublished,
                                               1000 + 100 * b + 10 * i + 1),
                       dateModified |-> Stamp(ld[b].items[i].dateModified,
                                              1000 + 100 * b + 10 * i + 2),
                       dateCreated |-> Stamp(ld[b].items[i].dateCreated,
                                             1000 + 100 * b + 10 * i + 3)]]]]

StampMeta(meta) ==
    [j \in 1..Len(meta) |->
        [attr |-> meta[j].attr, key |-> meta[j].key,
         content |-> Stamp(meta[j].content, 2000 + j)]]

StampTimes(times) ==
    [j \in 1..Len(times) |->
        [datetime |-> Stamp(times[j].datetime, 3000 + 10 * j + 1),
         text |-> Stamp(times[j].text, 3000 + 10 * j + 2)]]

\* Every layer varies freely over a page of FewPages, where a layer is
\* empty or holds one parseable date, and holds one when the layer before it
\* does.
LdAny == SeqsUpTo(LdBlocks, MaxBlocks)
LdFew == {<<>>, <<[kind |-> "object", items |-> <<LdItem(Good)>>]>>}
MetaAny == SeqsUpTo(MetaTags, MaxMeta)
MetaFew == {<<>>, <<[attr |-> "name", key |-> "date", content |-> Good]>>}
TimesAny == SeqsUpTo(TimeTags, MaxTimes)
TimesFew == {<<>>, <<[datetime |-> Good, text |-> NoneDt]>>}
UrlsAny == SeqsUpTo(UrlDateMatches, 2)
UrlsFew == {<<>>, <<[form |-> "ymd", y |-> 2025, m |-> 2, d |-> 21]>>}

FewPages ==
    {p \in [ld : LdFew, meta : MetaFew, times : TimesFew, url : UrlsFew] :
        /\ p.ld # <<>> => p.meta # <<>>
        /\ p.meta # <<>> => p.times # <<>>
        /\ p.times # <<>> => p.url # <<>>}

\* The page and the URL given to the function
IsPage(ld, meta, times, url) ==
    /\ html = [ld |-> StampLd(ld), meta |-> StampMeta(meta),
               times |-> StampTimes(times)]
    /\ page_url = url

InitDateVars ==
    /\ date_pc = "start"
    /\ date_result = NoneDt
    /\ \E p \in FewPages :
          \/ \E ld \in LdAny : IsPage(ld, p.meta, p.times, p.url)
          \/ \E meta \in MetaAny : IsPage(p.ld, meta, p.times, p.url)
          \/ \E times \in TimesAny : IsPage(p.ld, p.meta, times, p.url)
          \/ \E url \in UrlsAny : IsPage(p.ld, p.meta, p.times, url)

IdleDate ==
    /\ date_pc = "idle"
    /\ html = [ld |-> <<>>, meta |-> <<>>, times |-> <<>>]
    /\ page_url = <<>>
    /\ date_result = NoneDt

\* _extract_date_from_html(html, url), one call
ExtractDate ==
    /\ date_pc = "start"
    /\ date_result' = _extract_date_from_html(html, page_url)
    /\ date_pc' = "returned"
    /\ UNCHANGED <<html, page_url, links_vars>>
    /\ UNCHANGED <<crawl_vars, strategy_vars, an_vars, mn_vars>>

-----------------------------------------------------------------------------
(* _extract_article_links *)

\* A URL is the record of its parts: the scheme ("" when the reference has
\* none), the host, the path as its segments between slashes (a trailing
\* slash leaves an empty last segment) and the fragment ("" when absent).
\* Two URLs are the same string exactly when the records are equal.
Url(scheme, host, path, frag) ==
    [scheme |-> scheme, host |-> host, path |-> path, frag |-> frag]

\* The href attribute missing or empty, so that `not href` holds
NoHref == Url("", "", <<>>, "")

base_url == Url("https", "site", <<"blog">>, "")

Hrefs ==
    { NoHref,
      Url("", "", <<"a">>, ""),                 \* /a
      Url("", "", <<"b">>, ""),                 \* /b
      Url("", "", <<"a">>, "top"),              \* /a#top
      Url("https", "site", <<"a">>, ""),        \* https://site/a
      Url("http", "ext", <<"b">>, ""),          \* http://ext/b
      Url("", "", <<"tag", "x">>, ""),          \* /tag/x
      Url("", "", <<"Tag", "x">>, ""),          \* /Tag/x
      Url("", "", <<"about">>, ""),             \* /about
      Url("", "", <<"about", "">>, ""),         \* /about/
      Url("mailto", "", <<"x">>, "") }          \* mailto:x

\* An element of the listing page: its href, whether the selector of the
\* source matches it, and whether the heuristic patterns (article, heading
\* and title-class containers) match it.
Elements == [href : Hrefs, sel : BOOLEAN, in_container : BOOLEAN]

\* urljoin(base_url, href) for a root-relative or an absolute reference
urljoin(base, href) ==
    IF href.scheme = "" THEN Url(base.scheme, base.host, href.path, href.frag)
    ELSE href

\* re.I on the words of the pattern
Lower(seg) == CASE seg = "Tag" -> "tag" [] OTHER -> seg

NoiseWords ==
    {"tag", "tags", "category", "categories", "author", "page", "search",
     "login", "signup", "about", "contact", "privacy", "terms"}

\* noise_patterns.search(parsed.path): "/word/" somewhere in the path.  The
\* alternatives "#", "javascript:" and "mailto:" look for text that urlparse
\* never leaves in the path of the URLs of Hrefs.
noise_patterns(path) ==
    \E i \in 1..(Len(path) - 1) : Lower(path[i]) \in NoiseWords

\* soup.select(selector), the heuristic containers, soup.find_all("a", href=True)
Matches(e, query) ==
    CASE query = "selector" -> e.sel
      [] query = "containers" -> e.in_container
      [] query = "a[href]" -> e.href # NoHref

\* The positions of the page's elements that match a query, in page order
RECURSIVE Positions(_, _, _)
Positions(page, query, i) ==
    IF i > Len(page) THEN <<>>
    ELSE IF Matches(page[i], query) THEN <<i>> \o Positions(page, query, i + 1)
         ELSE Positions(page, query, i + 1)

\* if selector: anchors = soup.select(selector)
\* else: containers = ...; anchors = containers if selector else [];
\*       if not anchors: anchors = soup.find_all("a", href=True)
Anchors(page, sel) ==
    IF sel = "given" THEN Positions(page, "selector", 1)
    ELSE LET containers == Positions(page, "containers", 1)
             anchors == IF sel = "given" THEN containers ELSE <<>>
         IN  IF anchors = <<>> THEN Positions(page, "a[href]", 1) ELSE anchors

\* if full not in seen
IsNewAlways(full, seen) == TRUE
IsNew(full, seen) == full \notin seen

\* for a in anchors
RECURSIVE LinkLoop(_, _, _, _)
LinkLoop(page, anchors, seen, found) ==
    IF anchors = <<>> THEN found
    ELSE LET href == page[Head(anchors)].href
             full == urljoin(base_url, href)
             keep == /\ href # NoHref
                     /\ full.scheme \in {"http", "https"}
                     /\ ~noise_patterns(full.path)
                     /\ IsNew(full, seen)
         IN  IF keep
             THEN LinkLoop(page, Tail(anchors), seen \cup {full}, Append(found, full))
             ELSE LinkLoop(page, Tail(anchors), seen, found)

\* An exception (soup.select on a selector that is not valid CSS) gives []
_extract_article_links(page, sel) ==
    IF sel = "invalid" THEN <<>>
    ELSE LinkLoop(page, Anchors(page, sel), {}, <<>>)

\* A page seen without a selector has no selector matches
Listings(sel) ==
    SeqsUpTo({e \in Elements : /\ (sel # "given" => ~e.sel)
                               /\ (sel = "given" => ~e.in_container)}, MaxAnchors)

InitLinksVars ==
    /\ links_pc = "start"
    /\ selector \in {"none", "given", "invalid"}
    /\ listing \in Listings(selector)
    /\ link_result = <<>>

IdleLinks ==
    /\ links_pc = "idle"
    /\ selector = "none"
    /\ listing = <<>>
    /\ link_result = <<>>

\* _extract_article_links(html, base_url, selector), one call
ExtractLinks ==
    /\ links_pc = "start"
    /\ link_result' = _extract_article_links(listing, selector)
    /\ links_pc' = "returned"
    /\ UNCHANGED <<listing, selector, date_vars>>
    /\ UNCHANGED <<crawl_vars, strategy_vars, an_vars, mn_vars>>

-----------------------------------------------------------------------------
(* analyze *)

MaxArticles == 2     \* articles passed to analyze
MaxTop == 2          \* top_events ranges over 1..MaxTop
MaxEvents == 3       \* events in the service's answer

Attempts == 3        \* for attempt in range(1, 4)
RetryWait == 15      \* wait = attempt * 15

\* str(e) of an exception out of generate_content, as its characters
ErrorTexts ==
    {<<"5", "0", "3">>,               \* 503
     <<"1", "5", "0", "3", "0">>,     \* 503 inside a longer number
     <<"5", "0", "0">>,
     <<"4", "2", "9">>,
     <<"5", "0", " ", "3">>,
     <<>>}

\* "503" in str(e)
HasAnyText(text) == TRUE
Has503(text) ==
    \E i \in 1..(Len(text) - 2) : SubSeq(text, i, i + 2) = <<"5", "0", "3">>

\* What a successful call returns: no candidate, or the text parts of the
\* first candidate joined: not JSON, JSON that is not a list, or a list
Responses ==
    {[kind |-> "nocandidate", n |-> 0], [kind |-> "notjson", n |-> 0],
     [kind |-> "notlist", n |-> 0]}
    \cup [kind : {"list"}, n : 0..MaxEvents]

InitAnalyzeVars ==
    /\ an_pc = "start"
    /\ an_articles \in 0..MaxArticles
    /\ top_n \in 1..MaxTop
    /\ attempt = 0
    /\ last_err = <<>>
    /\ an_response = <<>>
    /\ an_events = 0
    /\ an_calls = <<>>
    /\ an_slept = <<>>

IdleAnalyze ==
    /\ an_pc = "idle"
    /\ an_articles = 0
    /\ top_n = 1
    /\ attempt = 0
    /\ last_err = <<>>
    /\ an_response = <<>>
    /\ an_events = 0
    /\ an_calls = <<>>
    /\ an_slept = <<>>

\* if not articles: return []
AnalyzeNoArticles ==
    /\ an_pc = "start" /\ an_articles = 0
    /\ an_pc' = "returned"
    /\ UNCHANGED <<an_articles, top_n, attempt, last_err, an_response, an_events,
                   an_calls, an_slept>>
    /\ UNCHANGED <<crawl_vars, strategy_vars, pure_vars, mn_vars>>

\* The prompt is built and the loop entered: attempt = 1
AnalyzeBegin ==
    /\ an_pc = "start" /\ an_articles > 0
    /\ an_pc' = "call"
    /\ attempt' = 1
    /\ UNCHANGED <<an_articles, top_n, last_err, an_response, an_events,
                   an_calls, an_slept>>
    /\ UNCHANGED <<crawl_vars, strategy_vars, pure_vars, mn_vars>>

\* generate_content returns: last_err = None; break
AnalyzeCallReturns ==
    /\ an_pc = "call" /\ attempt <= Attempts
    /\ \E resp \in Responses : an_response' = <<resp>>
    /\ an_calls' = Append(an_calls, [ok |-> TRUE, text |-> <<>>])
    /\ last_err' = <<>>
    /\ an_pc' = "parse"
    /\ UNCHANGED <<an_articles, top_n, attempt, an_events, an_slept>>
    /\ UNCHANGED <<crawl_vars, strategy_vars, pure_vars, mn_vars>>

\* generate_content raises e: sleep and go round again, or re-raise
AnalyzeCallRaises ==
    /\ an_pc = "call" /\ attempt <= Attempts
    /\ \E text \in ErrorTexts :
          /\ an_calls' = Append(an_calls, [ok |-> FALSE, text |-> text])
          /\ last_err' = <<text>>
          /\ IF Has503(text) /\ attempt < Attempts
             THEN /\ an_slept' = Append(an_slept, attempt * RetryWait)
                  /\ attempt' = attempt + 1
                  /\ UNCHANGED an_pc
             ELSE /\ an_pc' = "raised"
                  /\ UNCHANGED <<attempt, an_slept>>
    /\ UNCHANGED <<an_articles, top_n, an_response, an_events>>
    /\ UNCHANGED <<crawl_vars, strategy_vars, pure_vars, mn_vars>>

\* (The loop cannot run out: the third pass breaks or raises, so the
\* "if last_err: raise last_err" after it is never taken.)

\* The text parts are joined and parsed: events = json.loads(raw)[:top_n],
\* or the exception of candidates[0], json.loads or the list test
AnalyzeParse ==
    /\ an_pc = "parse"
    /\ IF an_response[1].kind = "list"
       THEN /\ an_events' = Min(an_response[1].n, top_n)
            /\ an_pc' = "returned"
       ELSE /\ an_pc' = "raised"
            /\ UNCHANGED an_events
    /\ UNCHANGED <<an_articles, top_n, attempt, last_err, an_response,
                   an_calls, an_slept>>
    /\ UNCHANGED <<crawl_vars, strategy_vars, pure_vars, mn_vars>>

-----------------------------------------------------------------------------
(* main and send_to_line *)

\* if not articles:
NoArticlesNever(n) == FALSE
NoArticles(n) == n = 0

\* if not events:
NoEvents(n) == n = 0

\* send_to_line: False without a token or a target id; else the message is
\* posted, and True unless the request or its status fails
send_to_line(posted) == line_configured /\ posted

InitMainVars ==
    /\ mn_pc = "start"
    /\ dry_run \in BOOLEAN
    /\ crawl_only \in BOOLEAN
    /\ line_configured \in BOOLEAN
    /\ mn_articles = <<>>
    /\ mn_events = <<>>
    /\ mn_status = <<>>
    /\ mn_calls = <<>>
    /\ mn_analyze = "none"

IdleMain ==
    /\ mn_pc = "idle"
    /\ dry_run = FALSE
    /\ crawl_only = FALSE
    /\ line_configured = FALSE
    /\ mn_articles = <<>>
    /\ mn_events = <<>>
    /\ mn_status = <<>>
    /\ mn_calls = <<>>
    /\ mn_analyze = "none"

\* load_settings() and load_json(sources.json) return
MainLoad ==
    /\ mn_pc = "start"
    /\ mn_pc' = "loaded"
    /\ UNCHANGED <<dry_run, crawl_only, line_configured, mn_articles, mn_events,
                   mn_status, mn_calls, mn_analyze>>
    /\ UNCHANGED <<crawl_vars, strategy_vars, pure_vars, an_vars>>

\* One of them raises (no sources.json, malformed JSON): nothing catches it
MainLoadRaises ==
    /\ mn_pc = "start"
    /\ mn_pc' = "exited"
    /\ mn_status' = <<1>>
    /\ UNCHANGED <<dry_run, crawl_only, line_configured, mn_articles, mn_events,
                   mn_calls, mn_analyze>>
    /\ UNCHANGED <<crawl_vars, strategy_vars, pure_vars, an_vars>>

\* articles = crawl_all(sources, settings), then the two early exits
MainCrawl ==
    /\ mn_pc = "loaded"
    /\ mn_calls' = Append(mn_calls, "crawl_all")
    /\ \E n \in 0..MaxArticles :
          /\ mn_articles' = <<n>>
          /\ IF NoArticles(n) \/ crawl_only
             THEN mn_pc' = "exited" /\ mn_status' = <<0>>
             ELSE mn_pc' = "analyze" /\ UNCHANGED mn_status
    /\ UNCHANGED <<dry_run, crawl_only, line_configured, mn_events, mn_analyze>>
    /\ UNCHANGED <<crawl_vars, strategy_vars, pure_vars, an_vars>>

\* events = analyze(articles, settings) returns; the exit without events,
\* the printing of the events (e.get raises on an event that is no object)
\* and the exit of a dry run
MainAnalyzeReturns ==
    /\ mn_pc = "analyze"
    /\ mn_calls' = Append(mn_calls, "analyze")
    /\ mn_analyze' = "returned"
    /\ \E n \in 0..MaxEvents, printable \in BOOLEAN :
          /\ mn_events' = <<n>>
          /\ IF NoEvents(n) THEN mn_pc' = "exited" /\ mn_status' = <<0>>
             ELSE IF ~printable THEN mn_pc' = "exited" /\ mn_status' = <<1>>
             ELSE IF dry_run THEN mn_pc' = "exited" /\ mn_status' = <<0>>
             ELSE mn_pc' = "send" /\ UNCHANGED mn_status
    /\ UNCHANGED <<dry_run, crawl_only, line_configured, mn_articles>>
    /\ UNCHANGED <<crawl_vars, strategy_vars, pure_vars, an_vars>>

\* analyze raises: except Exception: sys.exit(1)
MainAnalyzeRaises ==
    /\ mn_pc = "analyze"
    /\ mn_calls' = Append(mn_calls, "analyze")
    /\ mn_analyze' = "raised"
    /\ mn_pc' = "exited"
    /\ mn_status' = <<1>>
    /\ UNCHANGED <<dry_run, crawl_only, line_configured, mn_articles, mn_events>>
    /\ UNCHANGED <<crawl_vars, strategy_vars, pure_vars, an_vars>>

\* success = send_to_line(events, articles, settings)
MainSend ==
    /\ mn_pc = "send"
    /\ mn_calls' = Append(mn_calls, "send_to_line")
    /\ \E posted \in BOOLEAN :
          mn_status' = IF send_to_line(posted) THEN <<0>> ELSE <<1>>
    /\ mn_pc' = "exited"
    /\ UNCHANGED <<dry_run, crawl_only, line_configured, mn_articles, mn_events,
                   mn_analyze>>
    /\ UNCHANGED <<crawl_vars, strategy_vars, pure_vars, an_vars>>

-----------------------------------------------------------------------------
(* Specifications *)

\* One run of main
InitMain ==
    /\ IdleAnalyze
    /\ IdleCrawl /\ IdleRss /\ IdleSitemap /\ IdleWeb
    /\ max_per_source = 0
    /\ max_chars = 0
    /\ IdleDate /\ IdleLinks
    /\ InitMainVars

NextMain ==
    \/ MainLoad
    \/ MainLoadRaises
    \/ MainCrawl
    \/ MainAnalyzeReturns
    \/ MainAnalyzeRaises
    \/ MainSend

SpecMain == InitMain /\ [][NextMain]_vars

\* One call of analyze
InitAnalyze ==
    /\ IdleMain
    /\ IdleCrawl /\ IdleRss /\ IdleSitemap /\ IdleWeb
    /\ max_per_source = 0
    /\ max_chars = 0
    /\ IdleDate /\ IdleLinks
    /\ InitAnalyzeVars

NextAnalyze ==
    \/ AnalyzeNoArticles
    \/ AnalyzeBegin
    \/ AnalyzeCallReturns
    \/ AnalyzeCallRaises
    \/ AnalyzeParse

SpecAnalyze == InitAnalyze /\ [][NextAnalyze]_vars

InitCrawl ==
    /\ IdleAnalyze /\ IdleMain
    /\ InitCrawlVars /\ IdleRss /\ IdleSitemap /\ IdleWeb /\ max_per_source = 0
    /\ max_chars = 0
    /\ IdleDate /\ IdleLinks

NextCrawl ==
    \/ CrawlSkip
    \/ CrawlUnknownType
    \/ CrawlFetched
    \/ CrawlFetcherRaised
    \/ CrawlReturn

SpecCrawl == InitCrawl /\ [][NextCrawl]_vars

\* One strategy call, as crawl_all makes it: fetcher(source, cutoff,
\* max_per_source, max_chars, session)
InitStrategy ==
    /\ IdleAnalyze /\ IdleMain
    /\ IdleDate /\ IdleLinks
    /\ IdleCrawl
    /\ max_per_source \in 0..MaxCap
    /\ max_chars \in CharCaps
    /\ \/ InitRssVars /\ IdleSitemap /\ IdleWeb
       \/ IdleRss /\ InitSitemapVars /\ IdleWeb
       \/ IdleRss /\ IdleSitemap /\ InitWebVars

NextStrategy ==
    \/ WebListingFails
    \/ WebListing
    \/ WebCandidate
    \/ WebReturn
    \/ FetchRss
    \/ SitemapResolve
    \/ SitemapLeafFails
    \/ SitemapLeafParsed
    \/ SitemapUrlElement
    \/ SitemapLeafDone
    \/ SitemapReturn

SpecStrategy == InitStrategy /\ [][NextStrategy]_vars

\* fetch_rss and fetch_sitemap
InitFeeds ==
    /\ IdleAnalyze /\ IdleMain
    /\ IdleDate /\ IdleLinks
    /\ IdleCrawl /\ IdleWeb
    /\ max_per_source \in 0..MaxCap
    /\ max_chars \in CharCaps
    /\ \/ InitRssVars /\ IdleSitemap
       \/ IdleRss /\ InitSitemapVars

NextFeeds ==
    \/ FetchRss
    \/ SitemapResolve
    \/ SitemapLeafFails
    \/ SitemapLeafParsed
    \/ SitemapUrlElement
    \/ SitemapLeafDone
    \/ SitemapReturn

SpecFeeds == InitFeeds /\ [][NextFeeds]_vars

\* fetch_sitemap
InitSitemap ==
    /\ IdleAnalyze /\ IdleMain
    /\ IdleDate /\ IdleLinks
    /\ IdleCrawl /\ IdleRss /\ IdleWeb
    /\ max_per_source \in 0..MaxCap
    /\ max_chars \in CharCaps
    /\ InitSitemapVars

NextSitemap ==
    \/ SitemapResolve
    \/ SitemapLeafFails
    \/ SitemapLeafParsed
    \/ SitemapUrlElement
    \/ SitemapLeafDone
    \/ SitemapReturn

SpecSitemap == InitSitemap /\ [][NextSitemap]_vars

\* fetch_web
InitWeb ==
    /\ IdleAnalyze /\ IdleMain
    /\ IdleDate /\ IdleLinks
    /\ IdleCrawl /\ IdleRss /\ IdleSitemap
    /\ max_per_source \in 0..MaxCap
    /\ max_chars \in CharCaps
    /\ InitWebVars

NextWeb ==
    \/ WebListingFails
    \/ WebListing
    \/ WebCandidate
    \/ WebReturn

SpecWeb == InitWeb /\ [][NextWeb]_vars

\* One call of _extract_date_from_html on every page of InitDateVars
InitDate ==
    /\ IdleAnalyze /\ IdleMain
    /\ IdleCrawl /\ IdleRss /\ IdleSitemap /\ IdleWeb /\ max_per_source = 0
    /\ max_chars = 0
    /\ IdleLinks
    /\ InitDateVars

NextDate == ExtractDate

SpecDate == InitDate /\ [][NextDate]_vars

\* One call of _extract_article_links on every listing page of Listings
InitLinks ==
    /\ IdleAnalyze /\ IdleMain
    /\ IdleCrawl /\ IdleRss /\ IdleSitemap /\ IdleWeb /\ max_per_source = 0
    /\ max_chars = 0
    /\ IdleDate
    /\ InitLinksVars

NextLinks == ExtractLinks

SpecLinks == InitLinks /\ [][NextLinks]_vars

-----------------------------------------------------------------------------
(* Claims about crawl_all (SpecCrawl) *)

Strategies == {"rss", "sitemap", "web"}

\* What descriptor k has contributed, from the history
Contribution(k) ==
    IF results[k].kind \in Strategies THEN FetcherReturn(k, results[k].n) ELSE <<>>

RECURSIVE ConcatTo(_)
ConcatTo(k) == IF k = 0 THEN <<>> ELSE ConcatTo(k - 1) \o Contribution(k)

\* A descriptor crawl_all has a strategy for
Dispatchable(source) ==
    source.name /\ source.url /\ source.type \in Strategies \cup {"absent"}

\* C1: crawl_all never raises; all_articles is the concatenation, in
\* descriptor order, of the lists of the strategies that did not raise (a
\* raising one contributes nothing); and when it returns every dispatchable
\* descriptor has been dispatched, whatever the earlier ones did.
C1_IsolatesAndConcatenates ==
    /\ crawl_pc # "raised"
    /\ all_articles = ConcatTo(Len(results))
    /\ crawl_pc = "returned" =>
          /\ Len(results) = Len(sources)
          /\ \A k \in 1..Len(sources) :
                Dispatchable(sources[k]) => results[k].kind \in Strategies \cup {"raised"}

C1_Witness ==
    /\ crawl_pc = "returned"
    /\ \E j, k, m \in 1..Len(results) :
          /\ j < k /\ k < m
          /\ results[j].kind \in Strategies /\ results[j].n > 0
          /\ results[k].kind = "raised"
          /\ results[m].kind \in Strategies /\ results[m].n > 0

\* C8: a descriptor that lacks name or url is never dispatched, gets no
\* unknown-type warning and contributes nothing, and the loop goes on to the
\* next descriptor.
C8_DocumentationEntriesSkipped ==
    /\ \A k \in 1..Len(results) :
          (~sources[k].name \/ ~sources[k].url) =>
              /\ results[k].kind = "skipped"
              /\ k \notin Range(warned)
              /\ \A j \in 1..Len(all_articles) : all_articles[j].source # k
    /\ crawl_pc \in {"loop", "returned"}
    /\ crawl_pc = "returned" => Len(results) = Len(sources)

C8_Witness ==
    /\ crawl_pc = "returned"
    /\ \E k \in 1..Len(sources) :
          /\ ~sources[k].name /\ sources[k].type = "ftp"
          /\ k < Len(sources)
          /\ results[k + 1].kind \in Strategies /\ results[k + 1].n > 0

\* C9: a descriptor with name and url whose type is none of rss, sitemap, web
\* contributes no record and is never dispatched; the descriptors after it
\* are still processed and crawl_all does not raise.
C9_UnknownTypeContributesNothing ==
    /\ \A k \in 1..Len(results) :
          (sources[k].name /\ sources[k].url /\ sources[k].type = "ftp") =>
              /\ results[k].kind = "unknown"
              /\ \A j \in 1..Len(all_articles) : all_articles[j].source # k
    /\ crawl_pc \in {"loop", "returned"}
    /\ crawl_pc = "returned" =>
          /\ Len(results) = Len(sources)
          /\ \A k \in 1..Len(sources) :
                Dispatchable(sources[k]) => results[k].kind \in Strategies \cup {"raised"}

C9_Witness ==
    /\ crawl_pc = "returned"
    /\ \E k \in 1..Len(sources) :
          /\ sources[k].name /\ sources[k].url /\ sources[k].type = "ftp"
          /\ k < Len(sources)
          /\ results[k + 1].kind \in Strategies /\ results[k + 1].n > 0

-----------------------------------------------------------------------------
(* Claims about fetch_rss and fetch_sitemap (SpecFeeds, SpecSitemap) *)

\* The feed's entries whose resolved date is at or after the cutoff
RssQualifying ==
    SelectSeq(feed.entries, LAMBDA e : _feedparser_entry_date(e) # NoneDt
                                       /\ _feedparser_entry_date(e) >= Cutoff)

RssFirstQualifying ==
    [k \in 1..Min(max_per_source, Len(RssQualifying)) |->
        [url |-> RssQualifying[k].link,
         published_at |-> _feedparser_entry_date(RssQualifying[k])]]

SitemapOutput == [k \in 1..Len(sm_articles) |->
                    <<sm_articles[k].url, sm_articles[k].published_at>>]

RssOutput == [k \in 1..Len(rss_articles) |->
                [url |-> rss_articles[k].url,
                 published_at |-> rss_articles[k].published_at]]

C2_RssPart == rss_pc = "returned" => RssOutput = RssFirstQualifying

\* C2 as stated: the output is the first min(cap, n) of the n entries whose
\* resolved date is at or after the cutoff, for the feed and for the sitemap
\* (n counts every such url element).
C2_AsStated ==
    /\ C2_RssPart
    /\ sm_pc = "returned" =>
          /\ SitemapOutput = Take(sm_located, max_per_source)
          /\ Len(sm_articles) = Min(max_per_source, sm_dated)

\* C2, amended: for the sitemap n counts the url elements that have a loc
\* with text; no record is older than the cutoff, and the cap is never
\* exceeded.
C2_FirstQualifyingUpToCap ==
    /\ C2_RssPart
    /\ SitemapOutput = Take(sm_located, max_per_source)
    /\ \A k \in 1..Len(sm_articles) : sm_articles[k].published_at >= Cutoff
    /\ \A k \in 1..Len(rss_articles) : rss_articles[k].published_at >= Cutoff
    /\ Len(sm_articles) <= max_per_source
    /\ Len(rss_articles) <= max_per_source

\* A sitemap source that offers more than the cap, over two children, with
\* one record dated exactly at the cutoff
C2_Witness ==
    /\ sm_pc = "returned"
    /\ max_per_source = 2
    /\ Len(sm_located) = 3
    /\ Len(sm_requests) = 3
    /\ Len(sm_articles) = 2
    /\ sm_articles[1].published_at = Cutoff
    /\ sm_articles[1].url # sm_articles[2].url

\* A feed that offers more than the cap
C2_WitnessRss ==
    /\ rss_pc = "returned"
    /\ max_per_source = 1
    /\ Len(RssQualifying) = 2
    /\ RssQualifying[1].link # RssQualifying[2].link
    /\ rss_articles[1].published_at = Cutoff

LeafRequests == SubSeq(sm_requests, 2, Len(sm_requests))

IndexLocTexts == SelectSeq(sm_index.locs, LAMBDA loc : loc # "")

\* C5 as stated: the leaf sitemaps fetched are the loc entries of the index
\* (those that have text, under a cap that lets at least one article in)
C5_AsStated ==
    (sm_pc = "returned" /\ sm_index.kind = "index" /\ max_per_source > 0) =>
        LeafRequests = IndexLocTexts

\* C5, amended: the leaf sitemaps fetched are a prefix, in document order, of
\* the loc entries that have text, and all of them unless the per-source cap
\* was reached first.
C5_IndexChildrenInOrder ==
    (sm_pc # "start" /\ sm_index.kind = "index") =>
        /\ Len(LeafRequests) <= Len(IndexLocTexts)
        /\ LeafRequests = SubSeq(IndexLocTexts, 1, Len(LeafRequests))
        /\ (sm_pc = "returned" /\ Len(sm_articles) < max_per_source) =>
              LeafRequests = IndexLocTexts

C5_Witness ==
    /\ sm_pc = "returned"
    /\ sm_index.kind = "index"
    /\ sm_index.locs = <<"c1", "c2">>
    /\ sm_requests = <<RootUrl, "c1", "c2">>
    /\ Len(sm_articles) = 2

-----------------------------------------------------------------------------
(* Claims about fetch_web (SpecWeb) *)

Accepted(link) == \E k \in 1..Len(web_articles) : web_articles[k].url = link

\* C3: a candidate whose page was fetched and scraped and has no resolvable
\* date is kept, with published_at "unknown"; one that was scraped and not
\* kept has a resolved date earlier than the cutoff.
C3_UnknownDateIsKept ==
    \A k \in 1..Len(web_log) :
        web_log[k].status = "ok" =>
            /\ web_log[k].pub_dt = NoneDt =>
                  \E j \in 1..Len(web_articles) :
                      /\ web_articles[j].url = web_log[k].link
                      /\ web_articles[j].published_at = Unknown
            /\ ~Accepted(web_log[k].link) =>
                  web_log[k].pub_dt # NoneDt /\ web_log[k].pub_dt < Cutoff

C3_Witness ==
    /\ web_pc = "returned"
    /\ WebContribution = web_articles
    /\ \E j, k \in 1..Len(web_log) :
          /\ web_log[j].status = "ok" /\ web_log[j].pub_dt = NoneDt
          /\ Accepted(web_log[j].link)
          /\ web_log[k].status = "ok" /\ web_log[k].pub_dt = Cutoff - 1
          /\ ~Accepted(web_log[k].link)

\* C4: article pages are requested one at a time in link order, only while
\* fewer than max_per_source articles are accepted and fewer than
\* max_to_check candidates are checked; the output is in link order and no
\* candidate after the one that fills the cap is requested.
C4_CapAndCeiling ==
    /\ Len(web_log) = checked
    /\ checked <= max_to_check
    /\ Len(web_articles) <= max_per_source
    /\ Len(web_log) <= Len(links)
    /\ \A k \in 1..Len(web_log) :
          /\ web_log[k].link = links[k]
          /\ web_log[k].accepted_before < max_per_source
          /\ web_log[k].checked_before < max_to_check
    /\ \A j, k \in 1..Len(web_articles) :
          j < k => web_articles[j].url < web_articles[k].url
    /\ (web_articles # <<>> /\ Len(web_articles) = max_per_source) =>
          web_log[Len(web_log)].link = web_articles[Len(web_articles)].url

\* Scenario C, scaled: more candidates than the cap, the first max_per_source
\* are accepted with a date, the rest are never requested
C4_Witness ==
    /\ web_pc = "returned"
    /\ max_per_source = 2
    /\ Len(links) = 4
    /\ Len(web_log) = 2
    /\ Len(web_articles) = 2
    /\ \A k \in 1..2 : web_articles[k].published_at >= Cutoff

\* The default ceiling (3 x cap) stops the loop before the links run out
C4_WitnessCeiling ==
    /\ web_pc = "returned"
    /\ max_articles = <<>> /\ max_per_source = 1
    /\ checked = 3 /\ Len(links) = 4
    /\ web_articles = <<>>

\* C10: a failure while fetching or scraping one article page only skips that
\* candidate: the loop goes on until the links run out or one of the two
\* limits is reached, and the articles accepted so far reach crawl_all.
C10_ArticleFailureOnlySkips ==
    web_pc \in {"returned", "raised"} =>
        /\ WebContribution = web_articles
        /\ links # <<>> =>
              \/ web_i > Len(links)
              \/ Len(web_articles) >= max_per_source
              \/ checked >= max_to_check

-----------------------------------------------------------------------------
(* Claims about _extract_date_from_html (SpecDate) *)

Parseable(v) == v > 0

Least(S) == CHOOSE x \in S : \A y \in S : x <= y

\* What the structured-data layer offers: in block order, and in a block in
\* the order datePublished, dateModified, dateCreated, the fields of the
\* block's object (of an array, of its first object).
C6_LdValue(b, f) ==
    LET obj == html.ld[b].items[1]
    IN  CASE f = 1 -> obj.datePublished
          [] f = 2 -> obj.dateModified
          [] f = 3 -> obj.dateCreated

C6_LdCandidates ==
    {n \in 1..(3 * Len(html.ld)) :
        LET b == (n + 2) \div 3
            f == n - 3 * (b - 1)
        IN  /\ html.ld[b].kind # "malformed"
            /\ html.ld[b].items # <<>>
            /\ Parseable(C6_LdValue(b, f))}

C6_LdYield ==
    IF C6_LdCandidates = {} THEN NoneDt
    ELSE LET n == Least(C6_LdCandidates)
         IN  C6_LdValue((n + 2) \div 3, n - 3 * (((n + 2) \div 3) - 1))

C6_MetaOrder ==
    <<"article:published_time", "article:modified_time", "og:updated_time",
      "date", "pubdate", "DC.date">>

\* The tag that stands for a key: the first one that has it as property, or,
\* when no tag has it as property, the first one that has it as name
C6_KeyTags(key) ==
    {j \in 1..Len(html.meta) :
        /\ html.meta[j].key = key
        /\ \A i \in 1..Len(html.meta) :
              (html.meta[i].key = key /\ i # j) =>
                  \/ html.meta[j].attr = "property" /\ html.meta[i].attr = "name"
                  \/ html.meta[j].attr = html.meta[i].attr /\ j < i}

C6_KeyValue(key) ==
    IF C6_KeyTags(key) = {} THEN NoneDt
    ELSE html.meta[Least(C6_KeyTags(key))].content

C6_MetaCandidates ==
    {k \in 1..Len(C6_MetaOrder) : Parseable(C6_KeyValue(C6_MetaOrder[k]))}

C6_MetaYield ==
    IF C6_MetaCandidates = {} THEN NoneDt
    ELSE C6_KeyValue(C6_MetaOrder[Least(C6_MetaCandidates)])

\* A time element offers its datetime attribute, or its text when it has none
C6_TimeValue(j) ==
    IF html.times[j].datetime # NoneDt THEN html.times[j].datetime
    ELSE html.times[j].text

C6_TimeCandidates == {j \in 1..Len(html.times) : Parseable(C6_TimeValue(j))}

C6_TimeYield ==
    IF C6_TimeCandidates = {} THEN NoneDt ELSE C6_TimeValue(Least(C6_TimeCandidates))

C6_UrlYield ==
    IF page_url # <<>> /\ IsCalendarDate(page_url[1].y, page_url[1].m, page_url[1].d)
    THEN Midnight(page_url[1].y, page_url[1].m, page_url[1].d)
    ELSE NoneDt

C6_Yields == <<C6_LdYield, C6_MetaYield, C6_TimeYield, C6_UrlYield>>

C6_WitnessMetaOrder ==
    /\ date_pc = "returned"
    /\ Len(html.meta) = 2
    /\ html.meta[1].key = "date" /\ Parseable(html.meta[1].content)
    /\ html.meta[2].key = "og:updated_time" /\ Parseable(html.meta[2].content)
    /\ html.ld = <<>>
    /\ date_result = html.meta[2].content

-----------------------------------------------------------------------------
(* Claims about _extract_article_links (SpecLinks) *)

\* The elements the function goes through
C7_Considered ==
    {i \in 1..Len(listing) :
        IF selector = "given" THEN listing[i].sel ELSE listing[i].href # NoHref}

C7_Full(i) == urljoin(base_url, listing[i].href)

C7_NoisePath(path) ==
    \E i \in 1..(Len(path) - 1) : Lower(path[i]) \in NoiseWords

\* The elements whose URL survives the filters
C7_Surviving ==
    {i \in C7_Considered :
        /\ listing[i].href # NoHref
        /\ C7_Full(i).scheme \in {"http", "https"}
        /\ ~C7_NoisePath(C7_Full(i).path)}

C7_FirstSeen(url) == Least({i \in C7_Surviving : C7_Full(i) = url})

\* C7: the returned list has no URL twice, only absolute http/https URLs, no
\* URL whose path has a blocklisted segment (in any letter case), and holds
\* the surviving URLs (all of them, unless the extraction failed) in the
\* order in which they are first seen.
C7_LinksFilteredInOrder ==
    links_pc = "returned" =>
        /\ \A j, k \in 1..Len(link_result) :
              j # k => link_result[j] # link_result[k]
        /\ \A k \in 1..Len(link_result) :
              /\ link_result[k].scheme \in {"http", "https"}
              /\ link_result[k].host # ""
              /\ ~C7_NoisePath(link_result[k].path)
              /\ \E i \in C7_Surviving : C7_Full(i) = link_result[k]
        /\ \A j, k \in 1..Len(link_result) :
              j < k => C7_FirstSeen(link_result[j]) < C7_FirstSeen(link_result[k])
        /\ selector # "invalid" =>
              \A i \in C7_Surviving :
                  \E k \in 1..Len(link_result) : link_result[k] = C7_Full(i)

\* A URL seen twice around a blocklisted one, and a second surviving URL
C7_Witness ==
    /\ links_pc = "returned"
    /\ Len(listing) = 3
    /\ C7_Considered = {1, 2, 3}
    /\ C7_Full(1) = C7_Full(2) /\ listing[1].href # listing[2].href
    /\ C7_Full(3) # C7_Full(1)
    /\ Len(link_result) = 2

\* A blocklisted URL, written in capitals, between two surviving ones
C7_WitnessNoise ==
    /\ links_pc = "returned"
    /\ Len(listing) = 3
    /\ listing[2].href.path = <<"Tag", "x">>
    /\ Len(link_result) = 2

-----------------------------------------------------------------------------
(* Claims about the records of one strategy call (SpecStrategy) *)

NoUrlTwice(articles) ==
    \A j, k \in 1..Len(articles) : j # k => articles[j].url # articles[k].url

\* C11: no two records returned by one strategy call (feed, sitemap or web)
\* carry the same url.
C11_UrlIsDedupKey ==
    /\ rss_pc = "returned" => NoUrlTwice(rss_articles)
    /\ sm_pc = "returned" => NoUrlTwice(sm_articles)
    /\ web_pc = "returned" => NoUrlTwice(web_articles)

IsInstant(v) == v \in Dates

\* The entries of the feed whose date _feedparser_entry_date cannot resolve
RssUndated ==
    {k \in 1..Len(feed.entries) : _feedparser_entry_date(feed.entries[k]) = NoneDt}

\* C12: every record has a published_at that is an instant or "unknown",
\* never the absent value; "unknown" is only on records of the web strategy;
\* a feed entry or a sitemap url element whose date cannot be resolved yields
\* no record.
C12_PublishedAtInstantOrUnknown ==
    /\ \A k \in 1..Len(rss_articles) : IsInstant(rss_articles[k].published_at)
    /\ \A k \in 1..Len(sm_articles) : IsInstant(sm_articles[k].published_at)
    /\ \A k \in 1..Len(web_articles) :
          \/ IsInstant(web_articles[k].published_at)
          \/ web_articles[k].published_at = Unknown
    /\ rss_pc = "returned" =>
          Len(rss_articles) <= Len(feed.entries) - Cardinality(RssUndated)
    /\ Len(sm_articles) <= sm_dated

\* A feed with an entry that has no resolvable date before one that has
C12_Witness ==
    /\ rss_pc = "returned"
    /\ Len(feed.entries) = 2
    /\ RssUndated = {1}
    /\ feed.entries[1].raw = BadStr
    /\ Len(rss_articles) = 1
    /\ rss_articles[1].published_at = Cutoff

\* A web source that returns a record marked unknown after a dated one
C12_WitnessWeb ==
    /\ web_pc = "returned"
    /\ Len(web_articles) = 2
    /\ IsInstant(web_articles[1].published_at)
    /\ web_articles[2].published_at = Unknown

-----------------------------------------------------------------------------
(* Claims about _date_from_url (SpecDate, on pages without any date) *)

NoDateInHtml == html = [ld |-> <<>>, meta |-> <<>>, times |-> <<>>]

C13_MonthDays(y) ==
    <<31, IF y % 400 = 0 \/ (y % 4 = 0 /\ y % 100 # 0) THEN 29 ELSE 28,
      31, 30, 31, 30, 31, 31, 30, 31, 30, 31>>

\* Year, month and day form a calendar date (years 0001 to 9999)
C13_ValidDate(match) ==
    /\ match.y \in 1..9999
    /\ match.m \in 1..12
    /\ match.d \in 1..C13_MonthDays(match.y)[match.m]

C13_MidnightOf(match) == match.y * 10000 + match.m * 100 + match.d

\* C13 as stated: the result is an instant exactly when the URL contains a
\* date segment that forms a calendar date, and none otherwise.
C13_AsStated ==
    (date_pc = "returned" /\ NoDateInHtml) =>
        (date_result # NoneDt <=>
            \E i \in 1..Len(page_url) : C13_ValidDate(page_url[i]))

\* C13, amended: the leftmost date segment of the URL decides: the result is
\* midnight UTC of its date when its digits form a calendar date, and none
\* when there is no date segment or the leftmost one is no calendar date.
C13_LeftmostSegmentDecides ==
    (date_pc = "returned" /\ NoDateInHtml) =>
        IF page_url # <<>> /\ C13_ValidDate(page_url[1])
        THEN date_result = C13_MidnightOf(page_url[1])
        ELSE date_result = NoneDt

\* 29 February of a leap year, written /YYYYMMDD/
C13_Witness ==
    /\ date_pc = "returned" /\ NoDateInHtml
    /\ Len(page_url) = 1
    /\ page_url[1] = [form |-> "compact", y |-> 2024, m |-> 2, d |-> 29]
    /\ date_result = 20240229

\* Month 13 gives none
C13_WitnessInvalid ==
    /\ date_pc = "returned" /\ NoDateInHtml
    /\ Len(page_url) = 1
    /\ page_url[1].m = 13 /\ page_url[1].y = 2025 /\ page_url[1].d = 21
    /\ date_result = NoneDt

-----------------------------------------------------------------------------
(* Claims about the pacing of fetch_web (SpecWeb) *)

\* C14: between any two consecutive article-page fetches of a source the
\* delay occurs, whatever became of the first of the two.
C14_DelayBetweenFetches ==
    \A k \in 1..(Len(web_log) - 1) : web_log[k].slept

-----------------------------------------------------------------------------
(* Claims about the candidate anchors of _extract_article_links (SpecLinks) *)

\* The elements the heuristic container queries match
C15_InContainers == {i \in 1..Len(listing) : listing[i].in_container}

\* C15: without a selector, when the heuristic container queries match
\* something, the links returned are links of the matched elements only; the
\* other anchors of the page are used only when the queries match nothing.
C15_HeuristicContainersFirst ==
    (links_pc = "returned" /\ selector = "none" /\ C15_InContainers # {}) =>
        \A k \in 1..Len(link_result) :
            \E i \in C15_InContainers :
                listing[i].href # NoHref /\ C7_Full(i) = link_result[k]

-----------------------------------------------------------------------------
(* Claims about failures in fetch_sitemap (SpecSitemap) *)

\* C16: a root that cannot be fetched or parsed, or is no index, is the sole
\* leaf sitemap; a leaf sitemap whose request or parse fails is skipped and
\* the child after it is still requested, as are all remaining children
\* until the per-source cap is reached; the url elements of the sitemaps
\* that do parse still reach the output; and the call goes on to return.
C16_SitemapFailuresNotFatal ==
    /\ (sm_pc \in {"outer", "inner", "returned"} /\ sm_index.kind # "index") =>
          sitemap_urls = <<RootUrl>>
    /\ sm_pc = "returned" =>
          \A i \in sm_failed :
              i < Len(sitemap_urls) => Len(LeafRequests) > i
    /\ (sm_pc = "returned" /\ sm_failed # {}) =>
          /\ Len(LeafRequests) = Len(sitemap_urls) \/ CapReached(sm_articles)
          /\ SitemapOutput = Take(sm_located, max_per_source)
    /\ sm_failed # {} =>
          /\ sm_pc \in {"outer", "inner", "returned"}
          /\ sm_failed \subseteq 1..Len(LeafRequests)

\* The first child of an index fails and an entry of the second is returned
C16_Witness ==
    /\ sm_pc = "returned"
    /\ sm_index.kind = "index" /\ sm_index.locs = <<"c1", "c2">>
    /\ sm_failed = {1}
    /\ sm_requests = <<RootUrl, "c1", "c2">>
    /\ Len(sm_articles) = 1

\* The root cannot be fetched at first and is then read as the sole leaf
C16_WitnessRoot ==
    /\ sm_pc = "returned"
    /\ sm_index.kind = "fail"
    /\ sm_failed = {}
    /\ sm_requests = <<RootUrl, RootUrl>>
    /\ Len(sm_articles) = 1

-----------------------------------------------------------------------------
(* Claims about the structured-data layer (SpecDate) *)

\* The parseable dates the objects of the page's blocks carry, those of every
\* object of an array included
C17_ObjectDates(obj) ==
    {v \in {obj.datePublished, obj.dateModified, obj.dateCreated} : Parseable(v)}

C17_BlockDates(block) ==
    UNION {C17_ObjectDates(block.items[i]) : i \in 1..Len(block.items)}

C17_LdDates == UNION {C17_BlockDates(html.ld[b]) : b \in 1..Len(html.ld)}

\* C17: when an object of a structured-data block, at any place of an array,
\* carries a parseable date, the result is a date of the structured-data
\* layer, whatever malformed or empty blocks the page also has.
C17_ArraySearchedLikeObject ==
    (date_pc = "returned" /\ C17_LdDates # {}) => date_result \in C17_LdDates

-----------------------------------------------------------------------------
(* C18: the date and the title of a sitemap entry *)

\* The date and the title the entry carries, whichever element of the entry
\* holds the news fields
C18_Resolved(el) ==
    IF el.news_date # NoneDt /\ _parse_date_str(el.news_date) # NoneDt
    THEN _parse_date_str(el.news_date)
    ELSE IF el.lastmod # NoneDt /\ _parse_date_str(el.lastmod) # NoneDt
    THEN _parse_date_str(el.lastmod)
    ELSE NoneDt

C18_Title(el) == IF el.news_title # "" THEN el.news_title ELSE el.loc

\* C18: for every url entry the loop body handles, the resolved date is the
\* news publication date when present and parseable, otherwise the lastmod
\* when present and parseable, otherwise the entry is skipped; an entry with
\* a loc whose resolved date is at or after the cutoff is emitted; and every
\* emitted record has that date, an empty summary and the news title or,
\* failing that, the URL as its title.
C18_NewsThenLastmodThenSkip ==
    Len(sm_el) = 1 =>
        LET el == sm_el[1].el
            appended == sm_el[1].appended
            pub_dt == C18_Resolved(el)
        IN  /\ pub_dt = NoneDt => ~appended
            /\ (el.loc # "" /\ pub_dt # NoneDt /\ pub_dt >= Cutoff) => appended
            /\ appended =>
                  LET rec == sm_articles[Len(sm_articles)]
                  IN  /\ rec.published_at = pub_dt
                      /\ rec.summary = ""
                      /\ rec.title = C18_Title(el)
                      /\ rec.url = el.loc

-----------------------------------------------------------------------------
(* C19: the length of a summary *)

\* C19: every record a strategy has collected has a summary of at most
\* max_chars characters: the feed's (summary attribute or first content
\* value, through _html_to_text), the web strategy's (the extractor's text,
\* or _html_to_text of the page) and the sitemap's (always empty).
C19_SummaryWithinCap ==
    /\ \A k \in 1..Len(rss_articles) : Len(rss_articles[k].summary) <= max_chars
    /\ \A k \in 1..Len(web_articles) : Len(web_articles[k].summary) <= max_chars
    /\ \A k \in 1..Len(sm_articles) :
          sm_articles[k].summary = "" /\ 0 <= max_chars

\* A feed whose first entry has a summary attribute and whose second has only
\* a content value, both with more text than the cap: both are cut to it
C19_Witness ==
    /\ rss_pc = "returned" /\ max_chars = 2
    /\ Len(feed.entries) = 2 /\ Len(rss_articles) = 2
    /\ feed.entries[1].summary # <<>>
    /\ Len(feed.entries[1].summary[1].text) > max_chars
    /\ feed.entries[1].summary[1].soup = "ok"
    /\ Len(rss_articles[1].summary) = max_chars
    /\ feed.entries[2].summary = <<>>
    /\ feed.entries[2].content # <<>>
    /\ Len(feed.entries[2].content[1].text) > max_chars
    /\ Len(rss_articles[2].summary) = max_chars

\* BeautifulSoup raises: the raw string is cut instead
C19_WitnessRawFallback ==
    /\ rss_pc = "returned" /\ max_chars = 2
    /\ Len(feed.entries) = 1 /\ Len(rss_articles) = 1
    /\ feed.entries[1].summary # <<>>
    /\ feed.entries[1].summary[1].soup = "raise"
    /\ Len(rss_articles[1].summary) = max_chars

\* Two accepted article pages, summaries of different lengths within the cap
C19_WitnessWeb ==
    /\ web_pc = "returned" /\ max_chars = 2
    /\ Len(web_articles) = 2
    /\ Len(web_articles[1].summary) = max_chars
    /\ Len(web_articles[2].summary) = 1

-----------------------------------------------------------------------------
(* Claims about analyze (SpecAnalyze) *)

\* The characters 5, 0, 3 in a row somewhere in the text
C20_Mentions503(text) ==
    \E i \in 1..Len(text) :
        /\ i + 2 <= Len(text)
        /\ text[i] = "5" /\ text[i + 1] = "0" /\ text[i + 2] = "3"

C20_Retriable(k) ==
    /\ ~an_calls[k].ok
    /\ C20_Mentions503(an_calls[k].text)
    /\ k < 3

\* C20: analyze calls the service at most 3 times; a further call is made,
\* after a wait of 15 s times the attempt number, only when a call failed
\* with an error whose text contains "503" and it was not the third; any
\* other failure, or a 503 on the third attempt, is re-raised at once, with
\* no wait; and no call follows a successful one.
C20_RetryOn503Only ==
    /\ Len(an_calls) <= 3
    \* every wait follows a retriable failure and lasts 15 s x attempt
    /\ Len(an_slept) <= Len(an_calls)
    /\ \A k \in 1..Len(an_slept) :
          C20_Retriable(k) /\ an_slept[k] = 15 * k
    /\ \A k \in 1..Len(an_calls) :
          \* a call that is followed by another was a retriable failure
          /\ k < Len(an_calls) => C20_Retriable(k) /\ Len(an_slept) >= k
          \* a retriable failure is waited for and followed by the next call
          /\ C20_Retriable(k) =>
                /\ Len(an_slept) >= k
                /\ k < Len(an_calls) \/ (an_pc = "call" /\ attempt = k + 1)
          \* any other failure is re-raised at once
          /\ (~an_calls[k].ok /\ ~C20_Retriable(k)) =>
                /\ k = Len(an_calls)
                /\ an_pc = "raised"
                /\ last_err = <<an_calls[k].text>>
                /\ Len(an_slept) = k - 1
          \* a success ends the calls
          /\ an_calls[k].ok => k = Len(an_calls) /\ an_pc # "call"

\* Two 503 failures, waits of 15 s and 30 s, then a successful third call
C20_Witness ==
    /\ an_pc = "returned"
    /\ Len(an_calls) = 3
    /\ C20_Mentions503(an_calls[1].text) /\ C20_Mentions503(an_calls[2].text)
    /\ an_calls[3].ok
    /\ an_slept = <<15, 30>>

\* A 503 on the third attempt is re-raised
C20_WitnessThird503 ==
    /\ an_pc = "raised"
    /\ Len(an_calls) = 3
    /\ C20_Mentions503(an_calls[3].text)
    /\ an_slept = <<15, 30>>

\* Another error on the first attempt is re-raised without a wait
C20_WitnessOtherError ==
    /\ an_pc = "raised"
    /\ Len(an_calls) = 1
    /\ an_calls[1].text = <<"4", "2", "9">>
    /\ an_slept = <<>>

-----------------------------------------------------------------------------
(* C22: how often the sitemap strategy requests a URL *)

\* How many of the requests went to a URL
C22_Requests(u) == Cardinality({k \in 1..Len(sm_requests) : sm_requests[k] = u})

\* C22 as stated: a root that is not an index (or whose first request or
\* parse failed) is requested exactly twice and every record comes from the
\* second response; the root of an index is requested exactly once and each
\* child it lists at most once.
C22_AsStated ==
    sm_pc = "returned" =>
        /\ sm_index.kind # "index" =>
              /\ sm_requests = <<RootUrl, RootUrl>>
              /\ \A k \in 1..Len(sm_origin) : sm_origin[k] = 2
        /\ sm_index.kind = "index" =>
              /\ C22_Requests(RootUrl) = 1
              /\ \A u \in Range(IndexLocTexts) : C22_Requests(u) <= 1

\* C22, amended: the second request of a root that is not an index is made
\* unless the per-source cap is 0, and then nothing is returned; an index is
\* requested once by _resolve_sitemaps, and after that every loc entry with
\* text is requested at most once, in document order, so a URL (the root's
\* included) is requested once more for each entry that lists it and that
\* the loop reaches.
C22_RootTwiceChildrenPerListing ==
    /\ sm_pc # "start" => sm_requests[1] = RootUrl
    /\ (sm_pc = "returned" /\ sm_index.kind # "index") =>
          /\ max_per_source >= 1 => sm_requests = <<RootUrl, RootUrl>>
          /\ max_per_source < 1 => sm_requests = <<RootUrl>> /\ sm_articles = <<>>
    /\ sm_index.kind # "index" =>
          /\ Len(sm_requests) <= 2
          /\ Len(sm_origin) = Len(sm_articles)
          /\ \A k \in 1..Len(sm_origin) : sm_origin[k] = 2
    /\ (sm_pc # "start" /\ sm_index.kind = "index") =>
          /\ Len(LeafRequests) <= Len(IndexLocTexts)
          /\ \A k \in 1..Len(LeafRequests) : LeafRequests[k] = IndexLocTexts[k]
          /\ \A u \in Range(IndexLocTexts) \cup {RootUrl} :
                C22_Requests(u) <=
                    Cardinality({k \in 1..Len(IndexLocTexts) : IndexLocTexts[k] = u})
                    + (IF u = RootUrl THEN 1 ELSE 0)

\* The first request of the root fails, the second is parsed and yields the
\* one record of the output
C22_Witness ==
    /\ sm_pc = "returned"
    /\ sm_index.kind = "fail"
    /\ max_per_source >= 1
    /\ sm_requests = <<RootUrl, RootUrl>>
    /\ Len(sm_articles) = 1 /\ sm_origin = <<2>>

\* An index that lists one child twice: the child is requested twice
C22_WitnessListedTwice ==
    /\ sm_pc = "returned"
    /\ sm_index.locs = <<"c1", "c1">>
    /\ sm_requests = <<RootUrl, "c1", "c1">>

-----------------------------------------------------------------------------
(* C23: a descriptor without a type *)

C23_Warnings(k) == Cardinality({j \in 1..Len(warned) : warned[j] = k})

\* C23: a descriptor with name and url and no type key is handed to the feed
\* strategy and gets no unknown-type warning; and every descriptor with name
\* and url is either handed to exactly one of the three strategies (the one
\* its type names) and not warned about, or handed to none and warned about
\* once.
C23_NoTypeMeansFeed ==
    \A k \in 1..Len(results) :
        (sources[k].name /\ sources[k].url) =>
            /\ sources[k].type = "absent" =>
                  /\ results[k].fetcher = "rss"
                  /\ results[k].kind \in {"rss", "raised"}
                  /\ C23_Warnings(k) = 0
            /\ \/ /\ results[k].fetcher \in {"rss", "sitemap", "web"}
                  /\ results[k].fetcher = sources[k].type
                        \/ sources[k].type = "absent"
                  /\ results[k].kind \in {results[k].fetcher, "raised"}
                  /\ C23_Warnings(k) = 0
               \/ /\ results[k].fetcher = "none"
                  /\ results[k].kind = "unknown"
                  /\ sources[k].type \notin {"rss", "sitemap", "web", "absent"}
                  /\ C23_Warnings(k) = 1
                  /\ \A j \in 1..Len(all_articles) : all_articles[j].source # k

\* A descriptor without a type whose feed call returns a record, next to one
\* of an unknown type that is warned about
C23_Witness ==
    /\ crawl_pc = "returned"
    /\ \E j, k \in 1..Len(sources) :
          /\ sources[j].name /\ sources[j].url /\ sources[j].type = "absent"
          /\ results[j].fetcher = "rss" /\ results[j].n > 0
          /\ sources[k].name /\ sources[k].url /\ sources[k].type = "ftp"
          /\ warned = <<k>>

-----------------------------------------------------------------------------
(* C21 *)

C21_Called(name) == \E i \in 1..Len(mn_calls) : mn_calls[i] = name

\* C21: main calls send_to_line only after crawl_all returned at least one
\* article, analyze returned without raising and with at least one event,
\* and neither --crawl-only nor --dry-run was given; analyze is never
\* called when the article list is empty or when --crawl-only is given; and
\* when analyze raises, the run ends with exit status 1 and nothing is sent
C21_SendOnlyAfterAnalysis ==
    /\ C21_Called("send_to_line") =>
          /\ mn_calls = <<"crawl_all", "analyze", "send_to_line">>
          /\ mn_articles # <<>> /\ mn_articles[1] >= 1
          /\ mn_analyze = "returned"
          /\ mn_events # <<>> /\ mn_events[1] >= 1
          /\ ~crawl_only
          /\ ~dry_run
    /\ mn_articles = <<0>> \/ crawl_only => ~C21_Called("analyze")
    /\ mn_analyze = "raised" =>
          /\ mn_pc = "exited"
          /\ mn_status = <<1>>
          /\ ~C21_Called("send_to_line")

\* A run that sent the notification and ended normally
C21_Witness ==
    /\ mn_pc = "exited"
    /\ mn_calls = <<"crawl_all", "analyze", "send_to_line">>
    /\ mn_status = <<0>>

\* A run in which analyze raised
C21_WitnessAnalyzeRaised ==
    /\ mn_analyze = "raised"
    /\ mn_calls = <<"crawl_all", "analyze">>

\* A run that crawled nothing and ended there
C21_WitnessNoArticles ==
    /\ mn_articles = <<0>>
    /\ mn_pc = "exited"
    /\ mn_status = <<0>>

=============================================================================
